---- MODULE Spec2Model ----
(***************************************************************************)
(* Model of the Aries adapter for Avalon (src/main.go, the handlers of     *)
(* the service whose lookup resolves an identifier against the Avalon solr *)
(* index).  One request is resolved at a time: the handlers share no       *)
(* mutable state, so concurrent requests are independent copies of this    *)
(* machine.  The solr index is the environment: every outbound GET is      *)
(* answered by a reply drawn from a bounded set of transport failures,     *)
(* HTTP statuses and bodies.                                               *)
(***************************************************************************)
EXTENDS Integers, Sequences, FiniteSets, TLC

VARIABLES pc, req, passedID, qs, urlStr, resp, out, status, text, wroteJSON,
          hcMap, sent, got

vars == <<pc, req, passedID, qs, urlStr, resp, out, status, text, wroteJSON,
          hcMap, sent, got>>

(***************************************************************************)
(* Bounds of the environment.                                              *)
(***************************************************************************)
\* largest numFound a body carries
MaxNumFound == 2
\* longest docs array of a reply to the id / identifier_ssim queries
MaxDocs == 1
\* longest docs array of a reply to the isDerivationOf_ssim query
MaxDerivs == 2

(***************************************************************************)
(* HTTP statuses written by the handlers.                                  *)
(***************************************************************************)
StatusOK == 200
StatusBadRequest == 400
StatusNotFound == 404
\* written by the Recovery middleware of gin.Default() when a handler panics
StatusInternalServerError == 500

\* identifiers a caller may pass
IDs == {"abc123", "vid9"}

(***************************************************************************)
(* Strings are modelled by what they are put together from: a text is a    *)
(* sequence of tokens, a token is a literal, the passed identifier, a      *)
(* request URL or an upstream body.                                        *)
(***************************************************************************)
Lit(s) == [t |-> "lit", v |-> s]
IdTok(id) == [t |-> "id", v |-> id]
UrlTok(u) == [t |-> "url", v |-> u]
BodyTok(b) == [t |-> "body", v |-> b]

\* url.QueryEscape(fmt.Sprintf("<field>:\"%s\"", value)): the escaped query
Query(field, value) == [field |-> field, value |-> value]

\* the field lists of the two kinds of select
LookupFL == "id,identifier_ssim,file_location_ssi,has_model_ssim,isPartOf_ssim"
DerivFL == "id,derivativeFile_ssi"

\* "%s/%s/select?q=%s&wt=json&indent=true%s"
SelectURL(q, fl) == [q |-> q, fl |-> fl, rows |-> "default"]

\* "%s/%s/select?q=*:*&wt=json&rows=0"
HealthURL == [q |-> Query("*", "*"), fl |-> "", rows |-> "0"]

(***************************************************************************)
(* solrDoc, solrResponse and the aries result, with Go's zero values.      *)
(***************************************************************************)
solrDoc(id, model, partOf, loc, alts, deriv) ==
    [ID |-> id, Model |-> model, PartOf |-> partOf, FileLocation |-> loc,
     IdentifierSSIM |-> alts, DerivativeFile |-> deriv]

ZeroResp == [NumFound |-> 0, Docs |-> <<>>]

ZeroAries == [Identifiers |-> <<>>, ServiceURL |-> <<>>, AccessURL |-> <<>>,
              AdminURL |-> <<>>, MetadataURL |-> <<>>, MasterFile |-> <<>>,
              DerivativeFile |-> <<>>]

ZeroHC == [AriesAvalon |-> "", Avalon |-> ""]

(***************************************************************************)
(* The environment: what the index may answer to one GET.                  *)
(***************************************************************************)
\* a body that is no JSON; echo: the text repeats the request URL
TextBody(echo) == [json |-> FALSE, echo |-> echo, hasNum |-> FALSE, numFound |-> 0,
                   hasDocs |-> FALSE, docs |-> <<>>]

\* a JSON body; a key the body lacks is marked absent
JSONBody(hasNum, n, hasDocs, docs) ==
    [json |-> TRUE, echo |-> FALSE, hasNum |-> hasNum, numFound |-> n,
     hasDocs |-> hasDocs, docs |-> docs]

\* the empty string
EmptyStr == TextBody(FALSE)

SeqsUpTo(S, n) == UNION {[1..k -> S] : k \in 0..n}

\* records the id / identifier_ssim selects may return: only the fields of
\* LookupFL are present, a missing field is Go's zero value.  A MediaObject
\* with and without optional fields, a master file under its parent, a
\* record that is no MediaObject and has no parent, a record without model.
LookupDocs == {solrDoc("r1", <<"MediaObject">>, <<>>, "f1", <<"a1", "a2">>, ""),
               solrDoc("r1", <<"MediaObject">>, <<>>, "", <<>>, ""),
               solrDoc("r2", <<"MasterFile">>, <<"p1">>, "f1", <<>>, ""),
               solrDoc("r3", <<"Derivative">>, <<>>, "", <<"a1">>, ""),
               solrDoc("r4", <<>>, <<"p1">>, "", <<>>, "")}

\* records the isDerivationOf_ssim select may return: the fields of DerivFL
DerivDocs == {solrDoc("", <<>>, <<>>, "", <<>>, d) : d \in {"", "d1", "d2"}}

JSONBodies(docSet, maxLen) ==
    {JSONBody(TRUE, n, TRUE, ds) : n \in 0..MaxNumFound, ds \in SeqsUpTo(docSet, maxLen)}
    \cup {JSONBody(FALSE, 0, TRUE, ds) : ds \in SeqsUpTo(docSet, maxLen)}
    \cup {JSONBody(TRUE, n, FALSE, <<>>) : n \in 0..MaxNumFound}
    \cup {JSONBody(FALSE, 0, FALSE, <<>>)}

HTTPReply(code, body) == [kind |-> "http", code |-> code, body |-> body]
TransportFailure(kind) == [kind |-> kind, code |-> 0, body |-> EmptyStr]

\* statuses other than 200 the index may answer with (redirects are followed
\* by the client and never seen)
OtherCodes == {204, 404, 500}

Replies(docSet, maxLen) ==
    {TransportFailure(k) : k \in {"refused", "timeout"}}
    \cup {HTTPReply(StatusOK, b) : b \in JSONBodies(docSet, maxLen) \cup {TextBody(FALSE)}}
    \cup {HTTPReply(c, b) : c \in OtherCodes,
              b \in {TextBody(FALSE), TextBody(TRUE),
                     JSONBody(TRUE, 1, TRUE, <<solrDoc("r1", <<"MediaObject">>, <<>>, "", <<>>, "")>>)}}

LookupReplies == Replies(LookupDocs, MaxDocs)
DerivReplies == Replies(DerivDocs, MaxDerivs)
HealthReplies == Replies({}, 0)

(***************************************************************************)
(* getAPIResponse and json.Unmarshal.                                      *)
(***************************************************************************)
\* the text of the *url.Error client.Get returns: Op "URL": Err
GetErrorText(url, kind) ==
    <<Lit("Get "), UrlTok(url), Lit(": "),
      Lit(IF kind = "timeout" THEN "Client.Timeout exceeded" ELSE "connection refused")>>

\* a status check that rejects server errors only
BadStatusOnly5xx(code) == code >= 500

\* resp.StatusCode != 200
BadStatus(code) == code # StatusOK

\* (string, error) of getAPIResponse; msg is err.Error()
getAPIResponse(url, reply) ==
    IF reply.kind # "http"
      THEN [err |-> TRUE, str |-> EmptyStr, msg |-> GetErrorText(url, reply.kind)]
    ELSE IF BadStatus(reply.code)
      THEN [err |-> TRUE, str |-> EmptyStr, msg |-> <<BodyTok(reply.body)>>]
    ELSE [err |-> FALSE, str |-> reply.body, msg |-> <<>>]

\* a field the JSON object lacks keeps the value the struct already has
\* (the index leaves out the fields a record has no value for, so a zero
\* value here stands for a missing key)
MergeDoc(n, o) ==
    [ID |-> IF n.ID = "" THEN o.ID ELSE n.ID,
     Model |-> IF n.Model = <<>> THEN o.Model ELSE n.Model,
     PartOf |-> IF n.PartOf = <<>> THEN o.PartOf ELSE n.PartOf,
     FileLocation |-> IF n.FileLocation = "" THEN o.FileLocation ELSE n.FileLocation,
     IdentifierSSIM |-> IF n.IdentifierSSIM = <<>> THEN o.IdentifierSSIM ELSE n.IdentifierSSIM,
     DerivativeFile |-> IF n.DerivativeFile = "" THEN o.DerivativeFile ELSE n.DerivativeFile]

\* a JSON array is decoded into the slice element by element, the elements
\* the slice already has are decoded into in place
MergeDocs(new, old) ==
    [i \in 1..Len(new) |-> IF i <= Len(old) THEN MergeDoc(new[i], old[i]) ELSE new[i]]

\* json.Unmarshal([]byte(str), &r): the error and the struct afterwards
Unmarshal(str, r) ==
    IF ~str.json
      THEN [err |-> TRUE, resp |-> r]
      ELSE [err |-> FALSE,
            resp |-> [NumFound |-> IF str.hasNum THEN str.numFound ELSE r.NumFound,
                      Docs |-> IF str.hasDocs THEN MergeDocs(str.docs, r.Docs) ELSE r.Docs]]

(***************************************************************************)
(* The pieces of ariesLookup.                                              *)
(***************************************************************************)
\* "%s not found"
NotFoundText(id) == <<IdTok(id), Lit(" not found")>>

\* the text for too many hits without the query
TooManyHitsTextNoQuery(id, url) == <<IdTok(id), Lit(" has too many hits")>>

\* "%s has too many hits. Query: %s"
TooManyHitsText(id, url) == <<IdTok(id), Lit(" has too many hits. Query: "), UrlTok(url)>>

\* resp.Response.NumFound == 0
NoHits(n) == n = 0

\* the test for too many hits with its bound off by one
TooManyHitsOffByOne(n) == n > 2

\* resp.Response.NumFound > 1
TooManyHits(n) == n > 1

\* the model test with the name misspelt
IsMediaObjectMisspelt(d) == d.Model[1] = "mediaobject"

\* doc.Model[0] == "MediaObject" (the caller has checked that Model[0] exists)
IsMediaObject(d) == d.Model[1] = "MediaObject"

\* the identifiers, the master file and the service URL of the matched record
BaseResult(d, q) ==
    [ZeroAries EXCEPT
       !.Identifiers = <<d.ID>> \o d.IdentifierSSIM,
       !.MasterFile = IF d.FileLocation # "" THEN <<d.FileLocation>> ELSE <<>>,
       !.ServiceURL = <<[URL |-> [q |-> q, fl |-> "", rows |-> "default"],
                         Protocol |-> "avalon-index"]>>]

\* the URLs of a MediaObject
MediaObjectURLs(o, d) ==
    [o EXCEPT
       !.MetadataURL = <<<<"avalon", "media_objects", d.ID, "content", "descMetadata">>>>,
       !.AccessURL = <<<<"avalon", "media_objects", d.ID>>>>,
       !.AdminURL = <<<<"avalon", "media_objects", d.ID, "edit">>>>]

\* the URLs of a master file, nested under its parent
SectionURLs(o, d) ==
    [o EXCEPT
       !.AccessURL = <<<<"avalon", "media_objects", d.PartOf[1], "section", d.ID>>>>,
       !.AdminURL = <<<<"avalon", "media_objects", d.PartOf[1], "section", d.ID, "edit">>>>]

\* the loop without its test for the empty string
HasDerivativeAlways(d) == TRUE

\* d.DerivativeFile != ""
HasDerivative(d) == d.DerivativeFile # ""

\* the loop over resp.Response.Docs that appends the derivative files
RECURSIVE CollectDerivatives(_)
CollectDerivatives(docs) ==
    IF docs = <<>> THEN <<>>
    ELSE (IF HasDerivative(Head(docs)) THEN <<Head(docs).DerivativeFile>> ELSE <<>>)
         \o CollectDerivatives(Tail(docs))

\* a getAPIResponse that fetches the URL a second time
RecordGetTwice(log, url) == Append(Append(log, url), url)

\* one client.Get per call of getAPIResponse
RecordGet(log, url) == Append(log, url)

\* a health check that drops the error
HealthValueIgnoresError(err) == "true"

\* the health of the index as healthCheckHandler reports it
HealthValue(err) == IF err THEN "false" ELSE "true"

(***************************************************************************)
(* The handlers.                                                           *)
(***************************************************************************)
Init ==
    /\ pc = "idle"
    /\ req = "none"
    /\ passedID = ""
    /\ qs = Query("", "")
    /\ urlStr = SelectURL(Query("", ""), "")
    /\ resp = ZeroResp
    /\ out = ZeroAries
    /\ status = 0
    /\ text = <<>>
    /\ wroteJSON = FALSE
    /\ hcMap = ZeroHC
    /\ sent = <<>>
    /\ got = <<>>

\* c.String(code, ...): the handler returns
RespondText(code, t) ==
    /\ status' = code
    /\ text' = t
    /\ wroteJSON' = FALSE
    /\ pc' = "done"

\* c.JSON(http.StatusOK, out): the handler returns
RespondJSON ==
    /\ status' = StatusOK
    /\ text' = <<>>
    /\ wroteJSON' = TRUE
    /\ pc' = "done"

\* an index out of range: the handler panics, nothing was written, and the
\* Recovery middleware of gin.Default() answers for it
Panic ==
    /\ status' = StatusInternalServerError
    /\ text' = <<>>
    /\ wroteJSON' = FALSE
    /\ pc' = "done"

\* a request for /api/aries/:id arrives: the id query is built
ariesLookupBegin ==
    /\ pc \in {"idle", "done"}
    /\ \E id \in IDs :
         /\ passedID' = id
         /\ qs' = Query("id", id)
         /\ urlStr' = SelectURL(Query("id", id), LookupFL)
    /\ req' = "lookup"
    /\ pc' = "primary"
    /\ resp' = ZeroResp
    /\ out' = ZeroAries
    /\ status' = 0
    /\ text' = <<>>
    /\ wroteJSON' = FALSE
    /\ sent' = <<>>
    /\ got' = <<>>
    /\ UNCHANGED hcMap

\* from the check of the number of hits to the isDerivationOf_ssim query or
\* the response: r is resp after the last Unmarshal, q and u the query and
\* URL that produced it
Derive(r, q, u) ==
    IF TooManyHits(r.NumFound)
      THEN /\ RespondText(StatusBadRequest, TooManyHitsText(passedID, u))
           /\ UNCHANGED <<out, qs, urlStr>>
    ELSE IF Len(r.Docs) = 0
      THEN /\ Panic
           /\ UNCHANGED <<out, qs, urlStr>>
    ELSE LET doc == r.Docs[1]
             base == BaseResult(doc, q)
         IN  IF Len(doc.Model) = 0
               THEN /\ Panic
                    /\ out' = base
                    /\ UNCHANGED <<qs, urlStr>>
             ELSE IF IsMediaObject(doc)
               THEN /\ out' = MediaObjectURLs(base, doc)
                    /\ RespondJSON
                    /\ UNCHANGED <<qs, urlStr>>
             ELSE IF Len(doc.PartOf) = 0
               THEN /\ Panic
                    /\ out' = base
                    /\ UNCHANGED <<qs, urlStr>>
             ELSE /\ out' = SectionURLs(base, doc)
                  /\ qs' = Query("isDerivationOf_ssim", doc.ID)
                  /\ urlStr' = SelectURL(Query("isDerivationOf_ssim", doc.ID), DerivFL)
                  /\ pc' = "secondary"
                  /\ UNCHANGED <<status, text, wroteJSON>>

\* the id query and what follows it up to the next query or the response
PrimaryQuery ==
    /\ pc = "primary"
    /\ \E reply \in LookupReplies :
         LET r == getAPIResponse(urlStr, reply)
             u == Unmarshal(r.str, resp)
             fq == Query("identifier_ssim", passedID)
         IN  /\ sent' = RecordGet(sent, urlStr)
             /\ got' = Append(got, reply)
             /\ IF r.err
                  THEN /\ RespondText(StatusNotFound, r.msg)
                       /\ UNCHANGED <<resp, out, qs, urlStr>>
                ELSE IF u.err
                  THEN /\ RespondText(StatusNotFound, NotFoundText(passedID))
                       /\ UNCHANGED <<resp, out, qs, urlStr>>
                ELSE IF NoHits(u.resp.NumFound)
                  THEN /\ resp' = u.resp
                       /\ qs' = fq
                       /\ urlStr' = SelectURL(fq, LookupFL)
                       /\ pc' = "fallback"
                       /\ UNCHANGED <<out, status, text, wroteJSON>>
                ELSE /\ resp' = u.resp
                     /\ Derive(u.resp, qs, urlStr)
    /\ UNCHANGED <<req, passedID, hcMap>>

\* the identifier_ssim query; the error of getAPIResponse is dropped and
\* the empty string it returns is what is parsed
FallbackQuery ==
    /\ pc = "fallback"
    /\ \E reply \in LookupReplies :
         LET r == getAPIResponse(urlStr, reply)
             u == Unmarshal(r.str, resp)
         IN  /\ sent' = RecordGet(sent, urlStr)
             /\ got' = Append(got, reply)
             /\ IF u.err
                  THEN /\ RespondText(StatusNotFound, NotFoundText(passedID))
                       /\ UNCHANGED <<resp, out, qs, urlStr>>
                ELSE IF NoHits(u.resp.NumFound)
                  THEN /\ resp' = u.resp
                       /\ RespondText(StatusNotFound, NotFoundText(passedID))
                       /\ UNCHANGED <<out, qs, urlStr>>
                ELSE /\ resp' = u.resp
                     /\ Derive(u.resp, qs, urlStr)
    /\ UNCHANGED <<req, passedID, hcMap>>

\* the isDerivationOf_ssim query of a master file, then the response
SecondaryQuery ==
    /\ pc = "secondary"
    /\ \E reply \in DerivReplies :
         LET r == getAPIResponse(urlStr, reply)
             u == Unmarshal(r.str, resp)
         IN  /\ sent' = RecordGet(sent, urlStr)
             /\ got' = Append(got, reply)
             /\ resp' = u.resp
             /\ out' = IF u.err THEN out
                       ELSE [out EXCEPT !.DerivativeFile = CollectDerivatives(u.resp.Docs)]
             /\ RespondJSON
    /\ UNCHANGED <<req, passedID, qs, urlStr, hcMap>>

\* a request for /healthcheck
healthCheckHandler ==
    /\ pc \in {"idle", "done"}
    /\ \E reply \in HealthReplies :
         LET r == getAPIResponse(HealthURL, reply)
         IN  /\ sent' = RecordGet(<<>>, HealthURL)
             /\ got' = <<reply>>
             /\ hcMap' = [AriesAvalon |-> "true", Avalon |-> HealthValue(r.err)]
    /\ req' = "health"
    /\ status' = StatusOK
    /\ text' = <<>>
    /\ wroteJSON' = TRUE
    /\ pc' = "done"
    /\ passedID' = ""
    /\ qs' = Query("", "")
    /\ urlStr' = HealthURL
    /\ resp' = ZeroResp
    /\ out' = ZeroAries

Next ==
    \/ ariesLookupBegin
    \/ PrimaryQuery
    \/ FallbackQuery
    \/ SecondaryQuery
    \/ healthCheckHandler

Spec == Init /\ [][Next]_vars

(***************************************************************************)
(* Vocabulary of the properties.  sent is the sequence of URLs fetched for *)
(* the request and got the replies to them, in order.                      *)
(***************************************************************************)
LookupDone == req = "lookup" /\ pc = "done"

HealthDone == req = "health" /\ pc = "done"

IsPrimary(u) == u.q.field = "id"
IsFallback(u) == u.q.field = "identifier_ssim"
IsSecondary(u) == u.q.field = "isDerivationOf_ssim"

\* the reply arrived with status 200 and a body that parses
Answered(r) == r.kind = "http" /\ r.code = 200 /\ r.body.json

\* the reply is a transport failure, a timeout, a status outside 200..299
\* or a body that does not parse
Failed(r) == r.kind # "http" \/ r.code \notin 200..299 \/ ~r.body.json

\* the number of matches a reply reports
NumFoundOf(r) == IF r.body.hasNum THEN r.body.numFound ELSE 0

\* the records a reply carries
DocsOf(r) == IF r.body.hasDocs THEN r.body.docs ELSE <<>>

\* the position in sent of the query that decides the match: the fallback
\* query when it was issued, the primary query otherwise
Deciding == IF Len(sent) >= 2 /\ IsFallback(sent[2]) THEN 2 ELSE 1

\* the text repeats a request URL, literally or inside an upstream body
ContainsQuery(t) ==
    \E i \in 1..Len(t) : t[i].t = "url" \/ (t[i].t = "body" /\ t[i].v.echo)

\* the derivative files of a sequence of records, the empty ones left out
NonEmptyDerivatives(docs) ==
    LET kept == SelectSeq(docs, LAMBDA d : d.DerivativeFile # "")
    IN  [i \in 1..Len(kept) |-> kept[i].DerivativeFile]

(***************************************************************************)
(* C1: a lookup answers 200 with a result only when the deciding query was *)
(* answered and reported exactly one match; when it reported zero or more  *)
(* than one match the lookup ends with a status other than 200 and no      *)
(* result is written.                                                      *)
(***************************************************************************)
C1_OnlyOneMatchResolves ==
    LookupDone =>
      /\ status = StatusOK =>
           Answered(got[Deciding]) /\ NumFoundOf(got[Deciding]) = 1 /\ wroteJSON
      /\ (Answered(got[Deciding]) /\ NumFoundOf(got[Deciding]) # 1) =>
           status # StatusOK /\ ~wroteJSON

C1_Witness ==
    /\ LookupDone
    /\ Deciding = 2
    /\ NumFoundOf(got[1]) = 0
    /\ NumFoundOf(got[2]) = 1
    /\ status = StatusOK
    /\ out.Identifiers # <<>>

(***************************************************************************)
(* C2: the identifier_ssim query is issued if and only if the id query was *)
(* answered with zero matches, and then as the second query, after the id  *)
(* query; and when the id query reports zero matches and the               *)
(* identifier_ssim query exactly one, the lookup answers 200 with the      *)
(* result of the record the identifier_ssim query returned.                *)
(***************************************************************************)
C2_FallbackResolves ==
    LookupDone =>
      /\ IsPrimary(sent[1])
      /\ \A i \in 1..Len(sent) : IsFallback(sent[i]) => i = 2
      /\ (\E i \in 1..Len(sent) : IsFallback(sent[i]))
           <=> (Answered(got[1]) /\ NumFoundOf(got[1]) = 0)
      /\ (/\ Answered(got[1]) /\ NumFoundOf(got[1]) = 0
          /\ Len(got) >= 2 /\ Answered(got[2]) /\ NumFoundOf(got[2]) = 1)
           => /\ status = StatusOK
              /\ wroteJSON
              /\ DocsOf(got[2]) # <<>>
              /\ out.Identifiers[1] = DocsOf(got[2])[1].ID

(***************************************************************************)
(* C3: when the deciding query reports more than one match the lookup      *)
(* answers 400 and the text of the response contains the URL of that       *)
(* query.                                                                  *)
(***************************************************************************)
C3_AmbiguousIs400WithQuery ==
    (LookupDone /\ Answered(got[Deciding]) /\ NumFoundOf(got[Deciding]) > 1) =>
      /\ status = StatusBadRequest
      /\ ~wroteJSON
      /\ \E i \in 1..Len(text) : text[i] = UrlTok(sent[Deciding])

C3_Witness ==
    /\ LookupDone
    /\ Deciding = 2
    /\ NumFoundOf(got[2]) = 2
    /\ status = StatusBadRequest
    /\ IsFallback(text[3].v)

(***************************************************************************)
(* C4: as soon as the id query, or the identifier_ssim query, fails (no    *)
(* connection, timeout, status outside 200..299, body that does not parse) *)
(* the lookup has answered 404; the failed query is the last one sent and  *)
(* was sent once.                                                          *)
(***************************************************************************)
C4_RequiredFailureIs404 ==
    req = "lookup" =>
      \A i \in 1..Len(got) :
        ((IsPrimary(sent[i]) \/ IsFallback(sent[i])) /\ Failed(got[i])) =>
          /\ pc = "done"
          /\ status = StatusNotFound
          /\ ~wroteJSON
          /\ Len(sent) = i
          /\ \A j \in 1..Len(sent) : sent[j] = sent[i] => j = i

C4_Witness ==
    /\ LookupDone
    /\ Len(sent) = 2
    /\ IsFallback(sent[2])
    /\ got[2].kind = "timeout"
    /\ status = StatusNotFound

(***************************************************************************)
(* C5: once the isDerivationOf_ssim query of a matched master file has     *)
(* been made the lookup answers 200; the derivative files of the result    *)
(* are the non-empty derivativeFile values of the records that query       *)
(* returned, one each and in their order, and none when that query failed. *)
(***************************************************************************)
C5_DerivativesOfSecondary ==
    (LookupDone /\ IsSecondary(sent[Len(sent)])) =>
      /\ status = StatusOK
      /\ wroteJSON
      /\ out.DerivativeFile =
           IF Answered(got[Len(got)])
             THEN NonEmptyDerivatives(DocsOf(got[Len(got)]))
             ELSE <<>>

C5_Witness ==
    /\ LookupDone
    /\ IsSecondary(sent[Len(sent)])
    /\ Answered(got[Len(got)])
    /\ Len(DocsOf(got[Len(got)])) = 2
    /\ DocsOf(got[Len(got)])[1].DerivativeFile = ""
    /\ out.DerivativeFile = <<"d2">>

(***************************************************************************)
(* C6: when the single matched record is a MediaObject the lookup answers  *)
(* 200 with the metadata, access and administrative URL of the record's    *)
(* ID, no isDerivationOf_ssim query is sent and the result has no          *)
(* derivative file.                                                        *)
(***************************************************************************)
C6_ContainerResult ==
    (/\ LookupDone
     /\ Answered(got[Deciding])
     /\ NumFoundOf(got[Deciding]) = 1
     /\ DocsOf(got[Deciding]) # <<>>
     /\ DocsOf(got[Deciding])[1].Model # <<>>
     /\ DocsOf(got[Deciding])[1].Model[1] = "MediaObject") =>
      LET id == DocsOf(got[Deciding])[1].ID
      IN  /\ status = StatusOK
          /\ wroteJSON
          /\ out.MetadataURL = <<<<"avalon", "media_objects", id, "content", "descMetadata">>>>
          /\ out.AccessURL = <<<<"avalon", "media_objects", id>>>>
          /\ out.AdminURL = <<<<"avalon", "media_objects", id, "edit">>>>
          /\ out.DerivativeFile = <<>>
          /\ \A i \in 1..Len(sent) : ~IsSecondary(sent[i])

C6_Witness ==
    /\ LookupDone
    /\ Deciding = 1
    /\ Answered(got[1])
    /\ DocsOf(got[1]) # <<>>
    /\ DocsOf(got[1])[1].Model = <<"MediaObject">>
    /\ out.MetadataURL # <<>>
    /\ out.MasterFile = <<"f1">>
    /\ status = StatusOK

(***************************************************************************)
(* C7 as stated: the health check answers 200 and reports the index        *)
(* "false" exactly when the GET failed in transport, timed out or came     *)
(* back with a status outside 200..299, and "true" for every 2xx status.   *)
(***************************************************************************)
C7_HealthFalseIffNon2xx ==
    HealthDone =>
      /\ status = StatusOK
      /\ hcMap.Avalon \in {"true", "false"}
      /\ hcMap.Avalon = "false"
           <=> (got[1].kind # "http" \/ got[1].code \notin 200..299)

(***************************************************************************)
(* C7 amended: the health check answers 200 and reports the index "false"  *)
(* exactly when the GET failed in transport, timed out or came back with a *)
(* status other than 200, and "true" for status 200 only.                  *)
(***************************************************************************)
C7_HealthFalseIffNot200 ==
    HealthDone =>
      /\ status = StatusOK
      /\ hcMap.AriesAvalon = "true"
      /\ hcMap.Avalon \in {"true", "false"}
      /\ hcMap.Avalon = "false"
           <=> (got[1].kind # "http" \/ got[1].code # 200)

C7_Witness ==
    /\ HealthDone
    /\ got[1].kind = "http"
    /\ got[1].code = 204
    /\ hcMap.Avalon = "false"
    /\ status = StatusOK

(***************************************************************************)
(* C8 as stated: a finished lookup has sent at least one and at most two   *)
(* queries to the index.                                                   *)
(***************************************************************************)
C8_AtMostTwoQueries ==
    LookupDone => Len(sent) \in 1..2

(***************************************************************************)
(* C8 amended: a lookup never has more than three queries sent, and a      *)
(* finished one has sent at least one: the id query, then possibly the     *)
(* identifier_ssim query, then possibly the isDerivationOf_ssim query.     *)
(***************************************************************************)
C8_AtMostThreeQueries ==
    req = "lookup" =>
      /\ Len(sent) <= 3
      /\ pc = "done" => Len(sent) >= 1
      /\ \A i \in 1..Len(sent) :
           \/ i = 1 /\ IsPrimary(sent[i])
           \/ i = 2 /\ IsFallback(sent[i])
           \/ i >= 2 /\ i = Len(sent) /\ IsSecondary(sent[i])

C8_Witness ==
    /\ LookupDone
    /\ Len(sent) = 3
    /\ IsPrimary(sent[1])
    /\ IsFallback(sent[2])
    /\ IsSecondary(sent[3])
    /\ status = StatusOK

(***************************************************************************)
(* C9: the text of a lookup response contains a request URL only when the  *)
(* response is the 400 for too many hits; no 404 text contains it.         *)
(***************************************************************************)
C9_QueryOnlyIn400 ==
    (LookupDone /\ ContainsQuery(text)) => status = StatusBadRequest

(***************************************************************************)
(* C10: every finished lookup has answered 200, 400 or 404.                *)
(***************************************************************************)
C10_AlwaysAnOutcome ==
    LookupDone => status \in {StatusOK, StatusBadRequest, StatusNotFound}

====
